---- MODULE Spec2Model ----
(***************************************************************************)
(* Chat UI of shun/claude-code-actions-example: the conversation log of    *)
(* the two ChatInterface variants (echo-only and Gemini-enabled), the      *)
(* GeminiApiService wrapper and the fetch-based sendGeminiMessage client.  *)
(*                                                                         *)
(* Text is a sequence of tokens: a token is a character of user input or   *)
(* a fragment of a string literal of the source.  Literals that contain    *)
(* "Gemini API" are split so that the fragment "Gemini API" is a token of  *)
(* its own, which makes String.includes("Gemini API") a subsequence test.  *)
(***************************************************************************)
EXTENDS Integers, Sequences, FiniteSets, TLC

VARIABLES
    app,            \* which component is mounted: "echo", "gemini", "service", "client",
                    \* "settings", "settingsSaved", "input", "instance"
    messages,       \* ChatInterface: messages.value
    selectedModel,  \* ChatInterface: selectedModel.value
    isTyping,       \* ChatInterface: isTyping.value
    errorMessage,   \* ChatInterface (Gemini-enabled): errorMessage.value
    geminiService,  \* ChatInterface (Gemini-enabled): module-level geminiService
    localStorage,   \* browser key-value store, one entry per storage key
    now,            \* Date.now(), in milliseconds
    pending,        \* suspended continuations of sendMessage, in submission order
    hist,           \* history: one record per accepted submission
    msgSub,         \* history: msgSub[i] is the submission that pushed messages[i]
    lastOp,         \* history: the handler that ran last (sendMessage with its
                    \* input, clearChat, or "other")
    call,           \* one call of generateResponse / sendGeminiMessage under test
    component       \* the SettingsModal, ChatInput or GeminiApiService instance
                    \* under test: its refs / fields and the events it emitted

vars == <<app, messages, selectedModel, isTyping, errorMessage, geminiService,
          localStorage, now, pending, hist, msgSub, lastOp, call, component>>

----------------------------------------------------------------------------
(* Bounds *)

MaxSubmissions == 2     \* accepted submissions per run
MaxJitter == 1          \* milliseconds the clock may pass beyond a timer tick
MaxEvents == 3          \* events a component under test emits per run

----------------------------------------------------------------------------
(* Text *)

Whitespace == {" ", "\n"}

RECURSIVE TrimStart(_)
TrimStart(s) ==
    IF s # <<>> /\ Head(s) \in Whitespace THEN TrimStart(Tail(s)) ELSE s

RECURSIVE TrimEnd(_)
TrimEnd(s) ==
    IF s # <<>> /\ s[Len(s)] \in Whitespace
    THEN TrimEnd(SubSeq(s, 1, Len(s) - 1))
    ELSE s

\* String.prototype.trim
Trim(s) == TrimEnd(TrimStart(s))

\* String.prototype.includes
Includes(s, t) ==
    \E i \in 1..(Len(s) - Len(t) + 1) : SubSeq(s, i, i + Len(t) - 1) = t

\* Number.prototype.toString of a millisecond count
NumToString(n) == <<ToString(n)>>

\* A value that may be null/undefined: <<>> when absent, <<v>> when present
None == <<>>
Some(v) == <<v>>

\* JavaScript truthiness of a string that may be null/undefined
Truthy(o) == o # None /\ o[1] # <<>>

\* Values a promise can reject with (or a throw statement can throw): an Error
\* object with a message, a bare string (no .message), or null/undefined
Err(m) == [type |-> "Error", message |-> m]
ThrownString == [type |-> "string", message |-> <<>>]
ThrownNull == [type |-> "null", message |-> <<>>]

\* error.message of a caught value (None when the property is undefined);
\* reading it from null/undefined is a TypeError, which callers test first
MessageOf(e) == IF e.type = "Error" THEN Some(e.message) ELSE None

NullPropertyError == Err(<<"Cannot read properties of null">>)

----------------------------------------------------------------------------
(* GeminiApiService (SDK-based service) *)

\* GeminiApiResponse; error is None when the property is not set
ApiResponse(c, ok, e) == [content |-> c, success |-> ok, error |-> e]

\* A settled promise of GeminiApiResponse
Fulfilled(v) == [state |-> "fulfilled", value |-> v, reason |-> ThrownNull]
Rejected(e) ==
    [state |-> "rejected", value |-> ApiResponse(<<>>, FALSE, None), reason |-> e]

\* Outcomes of model.generateContent(prompt) followed by response.text():
\* the text produced, or the value the call rejects with
TextOutcome(t) == [kind |-> "text", text |-> t, error |-> ThrownNull]
RejectOutcome(e) == [kind |-> "reject", text |-> <<>>, error |-> e]

\* The catch block of generateResponse: classify the caught value
ClassifyError(e) ==
    LET m == MessageOf(e) IN
    IF m # None /\ Includes(m[1], <<"API_KEY_INVALID">>) THEN <<"Invalid API key">>
    ELSE IF m # None /\ Includes(m[1], <<"SAFETY">>)
        THEN <<"Content blocked by safety filters">>
    ELSE IF m # None /\ Includes(m[1], <<"QUOTA_EXCEEDED">>)
        THEN <<"API quota exceeded">>
    ELSE IF Truthy(m) THEN m[1]
    ELSE <<"Failed to generate response">>

\* Variant of CallsGenerateContent that tests the prompt without trimming it
CallsGenerateContentUntrimmed(svc, prompt) ==
    prompt # <<>> /\ svc # None

\* generateResponse up to its first await: TRUE when model.generateContent is
\* called.  svc is the service instance, None when this.model is null.
CallsGenerateContent(svc, prompt) ==
    Trim(prompt) # <<>> /\ svc # None

\* generateResponse(prompt) on service svc, given the outcome of the model call
GenerateResponse(svc, prompt, outcome) ==
    IF Trim(prompt) = <<>>
    THEN Fulfilled(ApiResponse(<<>>, FALSE, Some(<<"Prompt cannot be empty">>)))
    ELSE IF svc = None
    THEN Fulfilled(ApiResponse(<<>>, FALSE, Some(<<"Gemini API", " not initialized">>)))
    ELSE IF outcome.kind = "text"
    THEN IF outcome.text = <<>>
         THEN Fulfilled(ApiResponse(<<>>, FALSE, Some(<<"No response generated">>)))
         ELSE Fulfilled(ApiResponse(outcome.text, TRUE, None))
    ELSE IF outcome.error.type = "null"
    THEN Rejected(NullPropertyError)
    ELSE Fulfilled(ApiResponse(<<>>, FALSE, Some(ClassifyError(outcome.error))))

\* new GeminiApiService({apiKey}): None when the constructor throws; the
\* instance keeps config.apiKey, and initialize() sets a non-null model
NewGeminiApiService(apiKey) ==
    IF ~Truthy(apiKey) THEN None ELSE Some([apiKey |-> apiKey[1]])

----------------------------------------------------------------------------
(* Inputs *)

\* Model ids offered by ModelSelector
Models == {"openai", "claude", "gemini"}

\* Texts a user submits: empty, whitespace-only, plain, padded
Texts == {<<>>, <<" ">>, <<"a">>, <<" ", "b", "\n">>}

\* Values the API key entry of the store can hold when the page loads, and
\* values typed into the settings modal
StoredKeys == {None, Some(<<>>), Some(<<" ">>), Some(<<"k1">>)}
KeyInputs == {<<" ">>, <<" ", "k2">>}
ClientStoredKeys == StoredKeys \cup {Some(<<"k2", " ">>)}

\* Outcomes of the model call seen by the chat component
ChatOutcomes ==
    { TextOutcome(<<"hi">>),
      TextOutcome(<<"\n">>),
      RejectOutcome(Err(<<"SAFETY", ": blocked">>)),
      RejectOutcome(ThrownNull) }

----------------------------------------------------------------------------
(* Conversation state shared by the two ChatInterface variants *)

TimerDelay == 1000

STORAGE_KEY == "gemini_api_key"
ClientStorageKey == "gemini-api-key"
StorageKeys == {STORAGE_KEY, ClientStorageKey}

EmptyStore == [k \in StorageKeys |-> None]

Message(id, content, sender, ts) ==
    [id |-> id, content |-> content, sender |-> sender, timestamp |-> ts]

\* A suspended sendMessage: waiting for its timer or for generateResponse.
\* model is history: selectedModel.value when sendMessage was called
TimerWait(sub, content, due, model) ==
    [sub |-> sub, content |-> content, kind |-> "timer", due |-> due,
     apiKey |-> <<>>, model |-> model]
GeminiWait(sub, content, apiKey, model) ==
    [sub |-> sub, content |-> content, kind |-> "gemini", due |-> 0,
     apiKey |-> apiKey, model |-> model]

\* History of one submission: "pending", "ok" or "failed"; the number of
\* assistant messages appended for it; the number of model calls made for it
Submission(status, ai, calls) ==
    [status |-> status, ai |-> ai, calls |-> calls]

Op(name, arg) == [op |-> name, arg |-> arg]

Remove(seq, i) == SubSeq(seq, 1, i - 1) \o SubSeq(seq, i + 1, Len(seq))

\* Variant of IsBlank that tests the text without trimming it
IsBlankUntrimmed(content) == content = <<>>

\* `!content.trim()`: the guard of sendMessage in both variants
IsBlank(content) == Trim(content) = <<>>

\* Variant of UserMessage that stores the text as typed
UserMessageUntrimmed(content, t) == Message(NumToString(t), content, "user", t)

\* The user message sendMessage creates at time t
UserMessage(content, t) == Message(NumToString(t), Trim(content), "user", t)

\* The assistant message created at time t
AiMessage(content, t) == Message(NumToString(t + 1), content, "ai", t)

\* The echo text of both variants, built when the response is appended
EchoResponse(model, content) == <<"Response from ", model, ": ">> \o content

NoCall == [pc |-> "none"]

NoComponent == [kind |-> "none"]

----------------------------------------------------------------------------
(* ChatInterface, echo-only variant *)

InitEcho ==
    /\ app = "echo"
    /\ messages = <<>>
    /\ selectedModel = "openai"
    /\ isTyping = FALSE
    /\ errorMessage = <<>>
    /\ geminiService = None
    /\ localStorage = EmptyStore
    /\ now = 0
    /\ pending = <<>>
    /\ hist = <<>>
    /\ msgSub = <<>>
    /\ lastOp = Op("mount", <<>>)
    /\ call = NoCall
    /\ component = NoComponent

\* sendMessage(content): validation, user message, typing flag, setTimeout
SendMessageEcho(content) ==
    /\ app = "echo"
    /\ lastOp' = Op("sendMessage", content)
    /\ IF IsBlank(content)
       THEN UNCHANGED <<messages, isTyping, pending, hist, msgSub>>
       ELSE /\ Len(hist) < MaxSubmissions
            /\ messages' = Append(messages, UserMessage(content, now))
            /\ isTyping' = TRUE
            /\ pending' = Append(pending,
                    TimerWait(Len(hist) + 1, content, now + TimerDelay,
                              selectedModel))
            /\ hist' = Append(hist, Submission("pending", 0, 0))
            /\ msgSub' = Append(msgSub, Len(hist) + 1)
    /\ UNCHANGED component
    /\ UNCHANGED <<app, selectedModel, errorMessage, geminiService, localStorage,
                   now, call>>

\* Variant of TimerCallbackEcho that puts the response at the front of the log
TimerCallbackEchoUnshift ==
    /\ app = "echo"
    /\ pending # <<>>
    /\ LET t == Head(pending)
           at == IF now < t.due THEN t.due ELSE now
       IN /\ now' = at
          /\ messages' = <<AiMessage(EchoResponse(selectedModel, t.content), at)>>
                            \o messages
          /\ isTyping' = FALSE
          /\ pending' = Tail(pending)
          /\ hist' = [hist EXCEPT ![t.sub].status = "ok", ![t.sub].ai = @ + 1]
          /\ msgSub' = <<t.sub>> \o msgSub
          /\ lastOp' = Op("other", <<>>)
    /\ UNCHANGED component
    /\ UNCHANGED <<app, selectedModel, errorMessage, geminiService, localStorage, call>>

\* The setTimeout callback: runs no earlier than its due time, oldest first
TimerCallbackEcho ==
    /\ app = "echo"
    /\ pending # <<>>
    /\ LET t == Head(pending)
           at == IF now < t.due THEN t.due ELSE now
       IN /\ now' = at
          /\ messages' = Append(messages,
                  AiMessage(EchoResponse(selectedModel, t.content), at))
          /\ isTyping' = FALSE
          /\ pending' = Tail(pending)
          /\ hist' = [hist EXCEPT ![t.sub].status = "ok", ![t.sub].ai = @ + 1]
          /\ msgSub' = Append(msgSub, t.sub)
          /\ lastOp' = Op("other", <<>>)
    /\ UNCHANGED component
    /\ UNCHANGED <<app, selectedModel, errorMessage, geminiService, localStorage, call>>

\* Variant of ClearChatEcho that removes the oldest entry only
ClearChatEchoOldestOnly ==
    /\ app = "echo"
    /\ messages' = IF messages = <<>> THEN <<>> ELSE Tail(messages)
    /\ msgSub' = IF msgSub = <<>> THEN <<>> ELSE Tail(msgSub)
    /\ lastOp' = Op("clearChat", <<>>)
    /\ UNCHANGED component
    /\ UNCHANGED <<app, selectedModel, isTyping, errorMessage, geminiService,
                   localStorage, now, pending, hist, call>>

ClearChatEcho ==
    /\ app = "echo"
    /\ messages' = <<>>
    /\ msgSub' = <<>>
    /\ lastOp' = Op("clearChat", <<>>)
    /\ UNCHANGED component
    /\ UNCHANGED <<app, selectedModel, isTyping, errorMessage, geminiService,
                   localStorage, now, pending, hist, call>>

\* ModelSelector v-model update
SelectModel(m) ==
    /\ app \in {"echo", "gemini"}
    /\ m # selectedModel
    /\ selectedModel' = m
    /\ lastOp' = Op("other", <<>>)
    /\ UNCHANGED component
    /\ UNCHANGED <<app, messages, isTyping, errorMessage, geminiService,
                   localStorage, now, pending, hist, msgSub, call>>

\* One millisecond passes with no handler running
Tick ==
    /\ app \in {"echo", "gemini"}
    /\ now % TimerDelay < MaxJitter
    /\ now' = now + 1
    /\ lastOp' = Op("other", <<>>)
    /\ UNCHANGED component
    /\ UNCHANGED <<app, messages, selectedModel, isTyping, errorMessage,
                   geminiService, localStorage, pending, hist, msgSub, call>>

NextEcho ==
    \/ \E c \in Texts : SendMessageEcho(c)
    \/ TimerCallbackEcho
    \/ ClearChatEcho
    \/ \E m \in Models : SelectModel(m)
    \/ Tick

SpecEcho == InitEcho /\ [][NextEcho]_vars

----------------------------------------------------------------------------
(* ChatInterface, Gemini-enabled variant *)

\* initializeGeminiService: a truthy stored key replaces the service; with no
\* (or an empty) stored key the service is left as it is
InitializeGeminiService(svc, store) ==
    LET apiKey == store[STORAGE_KEY] IN
    IF Truthy(apiKey) THEN NewGeminiApiService(apiKey) ELSE svc

InitGemini ==
    /\ app = "gemini"
    /\ messages = <<>>
    /\ selectedModel = "openai"
    /\ isTyping = FALSE
    /\ errorMessage = <<>>
    /\ \E k \in StoredKeys :
          /\ localStorage = [EmptyStore EXCEPT ![STORAGE_KEY] = k]
          /\ geminiService = InitializeGeminiService(None, localStorage)
    /\ now = 0
    /\ pending = <<>>
    /\ hist = <<>>
    /\ msgSub = <<>>
    /\ lastOp = Op("mount", <<>>)
    /\ call = NoCall
    /\ component = NoComponent

\* Variant of CaughtMessage that only logs the error
CaughtMessageLogOnly(e, banner) == banner

\* The catch block of sendMessage: the banner text for a caught value, or
\* the banner left as it is when reading error.message itself throws
CaughtMessage(e, banner) ==
    IF e.type = "null" THEN banner
    ELSE IF Truthy(MessageOf(e)) THEN e.message
    ELSE <<"An error occurred while sending the message">>

\* sendMessage(content) up to its first await (or to its end when it throws
\* before awaiting)
SendMessageGemini(content) ==
    /\ app = "gemini"
    /\ lastOp' = Op("sendMessage", content)
    /\ IF IsBlank(content)
       THEN UNCHANGED <<messages, isTyping, errorMessage, pending, hist, msgSub>>
       ELSE /\ Len(hist) < MaxSubmissions
            /\ messages' = Append(messages, UserMessage(content, now))
            /\ msgSub' = Append(msgSub, Len(hist) + 1)
            /\ IF selectedModel = "gemini"
               THEN IF geminiService = None
                    THEN /\ errorMessage' = CaughtMessage(
                                Err(<<"Gemini API", " key not configured. Please set it in settings.">>),
                                <<>>)
                         /\ isTyping' = FALSE
                         /\ hist' = Append(hist, Submission("failed", 0, 0))
                         /\ UNCHANGED pending
                    ELSE /\ errorMessage' = <<>>
                         /\ isTyping' = TRUE
                         /\ hist' = Append(hist, Submission("pending", 0,
                                IF CallsGenerateContent(geminiService, content)
                                THEN 1 ELSE 0))
                         /\ pending' = Append(pending,
                                GeminiWait(Len(hist) + 1, content,
                                           geminiService[1].apiKey, selectedModel))
               ELSE /\ errorMessage' = <<>>
                    /\ isTyping' = TRUE
                    /\ hist' = Append(hist, Submission("pending", 0, 0))
                    /\ pending' = Append(pending,
                            TimerWait(Len(hist) + 1, content, now + TimerDelay,
                                      selectedModel))
    /\ UNCHANGED component
    /\ UNCHANGED <<app, selectedModel, geminiService, localStorage, now, call>>

\* Index of the oldest continuation waiting on a timer (0 when there is none)
OldestTimer ==
    LET idx == {i \in 1..Len(pending) : pending[i].kind = "timer"}
    IN IF idx = {} THEN 0 ELSE CHOOSE i \in idx : \A j \in idx : i <= j

\* sendMessage resumed after the 1000 ms timer: echo response, finally block
ResumeTimerGemini ==
    /\ app = "gemini"
    /\ OldestTimer # 0
    /\ LET t == pending[OldestTimer]
           at == IF now < t.due THEN t.due ELSE now
       IN /\ now' = at
          /\ messages' = Append(messages,
                  AiMessage(EchoResponse(selectedModel, t.content), at))
          /\ isTyping' = FALSE
          /\ pending' = Remove(pending, OldestTimer)
          /\ hist' = [hist EXCEPT ![t.sub].status = "ok", ![t.sub].ai = @ + 1]
          /\ msgSub' = Append(msgSub, t.sub)
          /\ lastOp' = Op("other", <<>>)
    /\ UNCHANGED component
    /\ UNCHANGED <<app, selectedModel, errorMessage, geminiService, localStorage, call>>

\* sendMessage resumed when generateResponse settles: response or banner,
\* then the finally block
ResumeGemini(i, outcome) ==
    /\ app = "gemini"
    /\ i \in 1..Len(pending)
    /\ pending[i].kind = "gemini"
    /\ LET t == pending[i]
           r == GenerateResponse(Some([apiKey |-> t.apiKey]), t.content, outcome)
           thrown == IF r.state = "rejected" THEN r.reason
                     ELSE IF Truthy(r.value.error) THEN Err(r.value.error[1])
                     ELSE Err(<<"Failed to get response from Gemini">>)
       IN /\ IF r.state = "fulfilled" /\ r.value.success
             THEN /\ messages' = Append(messages, AiMessage(r.value.content, now))
                  /\ msgSub' = Append(msgSub, t.sub)
                  /\ hist' = [hist EXCEPT ![t.sub].status = "ok", ![t.sub].ai = @ + 1]
                  /\ UNCHANGED errorMessage
             ELSE /\ errorMessage' = CaughtMessage(thrown, errorMessage)
                  /\ hist' = [hist EXCEPT ![t.sub].status = "failed"]
                  /\ UNCHANGED <<messages, msgSub>>
          /\ isTyping' = FALSE
          /\ pending' = Remove(pending, i)
          /\ lastOp' = Op("other", <<>>)
    /\ UNCHANGED component
    /\ UNCHANGED <<app, selectedModel, geminiService, localStorage, now, call>>

\* Variant of ClearChatGemini that also removes the stored API key
ClearChatGeminiForgetsKey ==
    /\ app = "gemini"
    /\ messages' = <<>>
    /\ msgSub' = <<>>
    /\ errorMessage' = <<>>
    /\ localStorage' = [localStorage EXCEPT ![STORAGE_KEY] = None]
    /\ lastOp' = Op("clearChat", <<>>)
    /\ UNCHANGED <<app, selectedModel, isTyping, geminiService, now,
                   pending, hist, call, component>>

ClearChatGemini ==
    /\ app = "gemini"
    /\ messages' = <<>>
    /\ msgSub' = <<>>
    /\ errorMessage' = <<>>
    /\ lastOp' = Op("clearChat", <<>>)
    /\ UNCHANGED component
    /\ UNCHANGED <<app, selectedModel, isTyping, geminiService, localStorage, now,
                   pending, hist, call>>

\* The settings modal's save with key k typed in, as the chat component sees
\* it: the trimmed key is stored and 'settings-saved' runs onSettingsSaved;
\* a blank key is refused inside the modal
SettingsSaved(k) ==
    /\ app = "gemini"
    /\ lastOp' = Op("other", <<>>)
    /\ IF Trim(k) = <<>>
       THEN UNCHANGED <<localStorage, geminiService, errorMessage>>
       ELSE /\ localStorage' = [localStorage EXCEPT ![STORAGE_KEY] = Some(Trim(k))]
            /\ geminiService' = InitializeGeminiService(geminiService, localStorage')
            /\ errorMessage' = <<>>
    /\ UNCHANGED component
    /\ UNCHANGED <<app, messages, selectedModel, isTyping, now, pending, hist,
                   msgSub, call>>

\* The settings modal's clear: the key is removed, no event reaches the chat
StoredKeyCleared ==
    /\ app = "gemini"
    /\ localStorage' = [localStorage EXCEPT ![STORAGE_KEY] = None]
    /\ lastOp' = Op("other", <<>>)
    /\ UNCHANGED component
    /\ UNCHANGED <<app, messages, selectedModel, isTyping, errorMessage,
                   geminiService, now, pending, hist, msgSub, call>>

NextGemini ==
    \/ \E c \in Texts : SendMessageGemini(c)
    \/ ResumeTimerGemini
    \/ \E i \in 1..MaxSubmissions, o \in ChatOutcomes : ResumeGemini(i, o)
    \/ ClearChatGemini
    \/ \E k \in KeyInputs : SettingsSaved(k)
    \/ StoredKeyCleared
    \/ \E m \in Models : SelectModel(m)
    \/ Tick

SpecGemini == InitGemini /\ [][NextGemini]_vars

----------------------------------------------------------------------------
(* GeminiApiService.generateResponse called on its own *)

\* Prompts passed to generateResponse and messages passed to sendGeminiMessage
Prompts == Texts \cup {<<"\n", " ">>}

\* The argument of a call: a prompt, or null/undefined
Arguments == {None} \cup {Some(p) : p \in Prompts}

\* Outcomes of the model call: texts, and the values it can reject with
ServiceOutcomes ==
    { TextOutcome(<<"hi">>), TextOutcome(<<>>), TextOutcome(<<" ">>),
      RejectOutcome(Err(<<"API_KEY_INVALID", ": The provided API key is invalid">>)),
      RejectOutcome(Err(<<"SAFETY", ": blocked">>)),
      RejectOutcome(Err(<<"QUOTA_EXCEEDED", ": API quota exceeded">>)),
      RejectOutcome(Err(<<"SAFETY", " ", "API_KEY_INVALID">>)),
      RejectOutcome(Err(<<"QUOTA_EXCEEDED", " ", "SAFETY">>)),
      RejectOutcome(Err(<<"Network error occurred">>)),
      RejectOutcome(Err(<<>>)),
      RejectOutcome(ThrownString),
      RejectOutcome(ThrownNull) }

\* A call under test.  pc: "none" before the call, then the await it is
\* suspended at, then "done"; requests counts the calls made to the remote
\* service (generateContent or fetch); sent is what the last request carried
Call(pc, input, requests, sent, response, result) ==
    [pc |-> pc, input |-> input, requests |-> requests, sent |-> sent,
     response |-> response, result |-> result]

NoRequest == [key |-> <<>>, text |-> <<>>]
NoResponse == [kind |-> "none"]
NoResult == [state |-> "pending"]

InitService ==
    /\ app = "service"
    /\ messages = <<>>
    /\ selectedModel = "openai"
    /\ isTyping = FALSE
    /\ errorMessage = <<>>
    /\ geminiService = NewGeminiApiService(Some(<<"test-api-key">>))
    /\ localStorage = EmptyStore
    /\ now = 0
    /\ pending = <<>>
    /\ hist = <<>>
    /\ msgSub = <<>>
    /\ lastOp = Op("mount", <<>>)
    /\ call = NoCall
    /\ component = NoComponent

\* The string a possibly null argument is read as by `x?.trim()` / `!x`
TextOf(o) == IF o = None THEN <<>> ELSE o[1]

\* generateResponse(prompt) up to its first await, or to its early return.
\* prompt is None for a null/undefined argument.
ServiceCall(prompt) ==
    /\ app = "service"
    /\ call.pc \in {"none", "done"}
    /\ IF CallsGenerateContent(geminiService, TextOf(prompt))
       THEN call' = Call("generateContent", prompt, 1,
                         [key |-> geminiService[1].apiKey, text |-> prompt[1]],
                         NoResponse, NoResult)
       ELSE call' = Call("done", prompt, 0, NoRequest, NoResponse,
                         GenerateResponse(geminiService, TextOf(prompt), TextOutcome(<<>>)))
    /\ UNCHANGED component
    /\ UNCHANGED <<app, messages, selectedModel, isTyping, errorMessage,
                   geminiService, localStorage, now, pending, hist, msgSub, lastOp>>

\* The model call settles and generateResponse runs to its return
ServiceSettle(outcome) ==
    /\ app = "service"
    /\ call.pc = "generateContent"
    /\ call' = [call EXCEPT !.pc = "done", !.response = outcome,
                            !.result = GenerateResponse(geminiService, TextOf(call.input), outcome)]
    /\ UNCHANGED component
    /\ UNCHANGED <<app, messages, selectedModel, isTyping, errorMessage,
                   geminiService, localStorage, now, pending, hist, msgSub, lastOp>>

NextService ==
    \/ \E p \in Arguments : ServiceCall(p)
    \/ \E o \in ServiceOutcomes : ServiceSettle(o)

SpecService == InitService /\ [][NextService]_vars

----------------------------------------------------------------------------
(* sendGeminiMessage (fetch-based client) *)

\* A parsed JSON body.  error: None when the object has no "error" member,
\* else Some(m) with m the (possibly absent) error.message; candidates: None
\* when there is no "candidates" member, else Some(list of candidates)
JsonObject(error, candidates) ==
    [kind |-> "object", error |-> error, candidates |-> candidates]
JsonNull == [kind |-> "null", error |-> None, candidates |-> None]
Unparsable == [kind |-> "unparsable", error |-> None, candidates |-> None]

\* A candidate: null, or an object whose content.parts is absent or a list
\* of parts, each part's text a string or undefined (None)
CandidateNull == [kind |-> "null", parts |-> <<>>]
CandidateNoParts == [kind |-> "noparts", parts |-> <<>>]
Candidate(parts) == [kind |-> "parts", parts |-> parts]

ErrorBody(m) == JsonObject(Some(Some(m)), None)
CandidatesBody(cs) == JsonObject(None, Some(cs))

\* A fetch Response; ok is true for the statuses 200..299
HttpResponse(status, statusText, body) ==
    [kind |-> "response", ok |-> status \in 200..299, status |-> status,
     statusText |-> statusText, body |-> body, cause |-> ThrownNull]
FetchRejects(cause) ==
    [kind |-> "rejects", ok |-> FALSE, status |-> 0, statusText |-> <<>>,
     body |-> Unparsable, cause |-> cause]

ErrorBodies ==
    { Unparsable, JsonNull, JsonObject(None, None), JsonObject(Some(None), None),
      ErrorBody(<<"Invalid API key">>), ErrorBody(<<>>) }

SuccessBodies ==
    { Unparsable, JsonNull, JsonObject(None, None),
      CandidatesBody(<<>>), CandidatesBody(<<CandidateNull>>),
      CandidatesBody(<<CandidateNoParts>>), CandidatesBody(<<Candidate(<<>>)>>),
      CandidatesBody(<<Candidate(<<Some(<<"Hello! ">>), Some(<<"How can I help?">>)>>)>>),
      CandidatesBody(<<Candidate(<<Some(<<>>)>>)>>),
      CandidatesBody(<<Candidate(<<Some(<<"x">>), None>>), Candidate(<<Some(<<"y">>)>>)>>) }

FetchOutcomes ==
    { FetchRejects(c) : c \in { Err(<<"Failed to fetch">>), Err(<<>>),
                                Err(<<"Gemini API", " unreachable">>),
                                ThrownString } }
    \cup { HttpResponse(200, <<"OK">>, b) : b \in SuccessBodies }
    \cup { HttpResponse(400, <<"Bad Request">>, b) : b \in ErrorBodies }
    \cup { HttpResponse(503, <<>>, b) : b \in {Unparsable, ErrorBody(<<"Invalid API key">>)} }

\* `${response.status} ${response.statusText}`
StatusLine(response) == <<ToString(response.status), " ">> \o response.statusText

\* Variant of ServiceErrorMessage that never reads the response body
ServiceErrorMessageStatusOnly(response) == StatusLine(response)

\* Variant of ServiceErrorMessage that falls back to the status text alone
ServiceErrorMessageNoCode(response) ==
    LET b == response.body IN
    IF b.kind = "object" /\ b.error # None /\ Truthy(b.error[1])
    THEN b.error[1][1]
    ELSE response.statusText

\* The error message chosen for a non-success response, after the inner
\* try/catch around response.json()
ServiceErrorMessage(response) ==
    LET b == response.body IN
    IF b.kind = "object" /\ b.error # None /\ Truthy(b.error[1])
    THEN b.error[1][1]
    ELSE StatusLine(response)

RECURSIVE JoinPartsSpaced(_)
\* Variant of JoinParts that joins with a space, as join(" ") would
JoinPartsSpaced(parts) ==
    IF parts = <<>> THEN <<>>
    ELSE (IF Head(parts) = None THEN <<>> ELSE Head(parts)[1])
         \o (IF Tail(parts) = <<>> THEN <<>> ELSE <<" ">> \o JoinPartsSpaced(Tail(parts)))

RECURSIVE JoinParts(_)
\* parts.map(part => part.text).join(""): undefined joins as the empty string
JoinParts(parts) ==
    IF parts = <<>> THEN <<>>
    ELSE (IF Head(parts) = None THEN <<>> ELSE Head(parts)[1]) \o JoinParts(Tail(parts))

\* The outer catch of sendGeminiMessage: the value the function rejects with
OuterCatch(e) ==
    IF e.type = "Error" /\ Includes(e.message, <<"Gemini API">>)
    THEN e
    ELSE Err(<<"Failed to connect to ", "Gemini API", ": ">> \o
             (IF e.type = "Error" THEN e.message ELSE <<"Unknown error">>))

\* sendGeminiMessage from the point fetch has settled to its end
AfterFetch(outcome) ==
    IF outcome.kind = "rejects" THEN Rejected(OuterCatch(outcome.cause))
    ELSE IF ~outcome.ok
    THEN Rejected(OuterCatch(
             Err(<<"Gemini API", " error: ">> \o ServiceErrorMessage(outcome))))
    ELSE LET b == outcome.body IN
         IF b.kind = "unparsable"
         THEN Rejected(OuterCatch(Err(<<"Unexpected token in JSON">>)))
         ELSE IF b.kind = "null"
         THEN Rejected(OuterCatch(NullPropertyError))
         ELSE IF b.candidates = None \/ b.candidates[1] = <<>>
         THEN Rejected(OuterCatch(Err(<<"No response from ", "Gemini API">>)))
         ELSE IF b.candidates[1][1].kind = "null"
         THEN Rejected(OuterCatch(NullPropertyError))
         ELSE IF b.candidates[1][1].kind = "noparts" \/ b.candidates[1][1].parts = <<>>
         THEN Rejected(OuterCatch(Err(<<"No response from ", "Gemini API">>)))
         ELSE Fulfilled(ApiResponse(JoinParts(b.candidates[1][1].parts), TRUE, None))

\* The guard `!x || !x.trim()` of sendGeminiMessage, negated: x is a
\* non-null string with a non-blank character
MessageGiven(x) == Truthy(x) /\ Trim(x[1]) # <<>>

InitClient ==
    /\ app = "client"
    /\ messages = <<>>
    /\ selectedModel = "openai"
    /\ isTyping = FALSE
    /\ errorMessage = <<>>
    /\ geminiService = None
    /\ \E k \in ClientStoredKeys :
          localStorage = [EmptyStore EXCEPT ![ClientStorageKey] = k]
    /\ now = 0
    /\ pending = <<>>
    /\ hist = <<>>
    /\ msgSub = <<>>
    /\ lastOp = Op("mount", <<>>)
    /\ call = NoCall
    /\ component = NoComponent

\* sendGeminiMessage(message) up to the fetch call, or to the throw of a
\* failed validation.  message is None for a null/undefined argument.
ClientCall(message) ==
    /\ app = "client"
    /\ call.pc \in {"none", "done"}
    /\ LET apiKey == localStorage[ClientStorageKey] IN
       IF ~MessageGiven(message)
       THEN call' = Call("done", message, 0, NoRequest, NoResponse,
                         Rejected(Err(<<"Message cannot be empty">>)))
       ELSE IF ~MessageGiven(apiKey)
       THEN call' = Call("done", message, 0, NoRequest, NoResponse,
                         Rejected(Err(<<"Gemini API",
                             " key not found. Please configure it in settings.">>)))
       ELSE call' = Call("fetch", message, 1,
                         [key |-> apiKey[1], text |-> Trim(message[1])],
                         NoResponse, NoResult)
    /\ UNCHANGED component
    /\ UNCHANGED <<app, messages, selectedModel, isTyping, errorMessage,
                   geminiService, localStorage, now, pending, hist, msgSub, lastOp>>

\* Variant of ClientSettle that calls fetch once more when fetch rejects
ClientSettleRetrying(outcome) ==
    /\ app = "client"
    /\ call.pc = "fetch"
    /\ IF outcome.kind = "rejects" /\ call.requests < 2
       THEN call' = [call EXCEPT !.requests = @ + 1]
       ELSE call' = [call EXCEPT !.pc = "done", !.response = outcome,
                                 !.result = AfterFetch(outcome)]
    /\ UNCHANGED component
    /\ UNCHANGED <<app, messages, selectedModel, isTyping, errorMessage,
                   geminiService, localStorage, now, pending, hist, msgSub, lastOp>>

\* fetch settles and sendGeminiMessage runs to its return or throw
ClientSettle(outcome) ==
    /\ app = "client"
    /\ call.pc = "fetch"
    /\ call' = [call EXCEPT !.pc = "done", !.response = outcome,
                            !.result = AfterFetch(outcome)]
    /\ UNCHANGED component
    /\ UNCHANGED <<app, messages, selectedModel, isTyping, errorMessage,
                   geminiService, localStorage, now, pending, hist, msgSub, lastOp>>

NextClient ==
    \/ \E m \in Arguments : ClientCall(m)
    \/ \E o \in FetchOutcomes : ClientSettle(o)

SpecClient == InitClient /\ [][NextClient]_vars

----------------------------------------------------------------------------
(* SettingsModal: the variant that emits 'close' (components/SettingsModal.vue) *)
(* and the variant that emits 'settings-saved' and closes itself after a delay *)

\* Values typed into the API key field
ModalInputs == {<<>>, <<"k3", "\n">>} \cup KeyInputs

\* The refs of a modal, the events it has emitted, the isOpen prop its parent
\* holds, and the timers it has started and that have not fired yet.
\* validation is validationMessage (close variant) or errorMessage
\* (settings-saved variant)
Modal(input, validation, success, emitted, isOpen, closeTimers, resetTimers) ==
    [kind |-> "modal", geminiApiKey |-> input, validationMessage |-> validation,
     successMessage |-> success, emitted |-> emitted, isOpen |-> isOpen,
     closeTimers |-> closeTimers, resetTimers |-> resetTimers]

\* Variant of LoadApiKey that leaves the field as it is
LoadApiKeyKeepsInput(input, stored) == input

\* loadApiKey / loadStoredApiKey: the field takes the stored key when there
\* is a non-empty one, and keeps its text otherwise
LoadApiKey(input, stored) == IF Truthy(stored) THEN stored[1] ELSE input

\* Variant of KeyGiven that accepts any non-empty text
KeyGivenUntrimmed(input) == input # <<>>

\* `geminiApiKey.value.trim()` as a condition (hasApiKey in the settings-saved
\* variant): the field holds a non-blank character
KeyGiven(input) == Trim(input) # <<>>

\* The storage key a modal variant reads and writes
ModalStorageKey == IF app = "settings" THEN ClientStorageKey ELSE STORAGE_KEY

InitSettings ==
    /\ app = "settings"
    /\ messages = <<>>
    /\ selectedModel = "openai"
    /\ isTyping = FALSE
    /\ errorMessage = <<>>
    /\ geminiService = None
    /\ \E k \in ClientStoredKeys :
          /\ localStorage = [EmptyStore EXCEPT ![ClientStorageKey] = k]
          /\ component = Modal(LoadApiKey(<<>>, k), <<>>, <<>>, <<>>, TRUE, 0, 0)
    /\ now = 0
    /\ pending = <<>>
    /\ hist = <<>>
    /\ msgSub = <<>>
    /\ lastOp = Op("mount", <<>>)
    /\ call = NoCall

\* v-model on the API key field: the user edits the text
SetApiKeyInput(k) ==
    /\ app \in {"settings", "settingsSaved"}
    /\ component.isOpen
    /\ k # component.geminiApiKey
    /\ component' = [component EXCEPT !.geminiApiKey = k]
    /\ lastOp' = Op("input", <<>>)
    /\ UNCHANGED <<app, messages, selectedModel, isTyping, errorMessage,
                   geminiService, localStorage, now, pending, hist, msgSub, call>>

\* Variant of SaveSettings that stores the key and stays open
SaveSettingsStaysOpen ==
    /\ app = "settings"
    /\ lastOp' = Op("save", component.geminiApiKey)
    /\ IF ~KeyGiven(component.geminiApiKey)
       THEN /\ component' = [component EXCEPT
                                !.validationMessage = <<"API key is required">>]
            /\ UNCHANGED localStorage
       ELSE /\ Len(component.emitted) < MaxEvents
            /\ localStorage' = [localStorage EXCEPT
                                   ![ClientStorageKey] = Some(Trim(component.geminiApiKey))]
            /\ component' = [component EXCEPT !.validationMessage = <<>>]
    /\ UNCHANGED <<app, messages, selectedModel, isTyping, errorMessage,
                   geminiService, now, pending, hist, msgSub, call>>

\* saveSettings: the click handler of the save button
SaveSettings ==
    /\ app = "settings"
    /\ lastOp' = Op("save", component.geminiApiKey)
    /\ IF ~KeyGiven(component.geminiApiKey)
       THEN /\ component' = [component EXCEPT
                                !.validationMessage = <<"API key is required">>]
            /\ UNCHANGED localStorage
       ELSE /\ Len(component.emitted) < MaxEvents
            /\ localStorage' = [localStorage EXCEPT
                                   ![ClientStorageKey] = Some(Trim(component.geminiApiKey))]
            /\ component' = [component EXCEPT
                                !.validationMessage = <<>>,
                                !.emitted = Append(@, "close")]
    /\ UNCHANGED <<app, messages, selectedModel, isTyping, errorMessage,
                   geminiService, now, pending, hist, msgSub, call>>

\* clearApiKey: the click handler of the clear button
ClearApiKeySettings ==
    /\ app = "settings"
    /\ lastOp' = Op("clear", <<>>)
    /\ localStorage' = [localStorage EXCEPT ![ClientStorageKey] = None]
    /\ component' = [component EXCEPT !.geminiApiKey = <<>>,
                                      !.validationMessage = <<>>]
    /\ UNCHANGED <<app, messages, selectedModel, isTyping, errorMessage,
                   geminiService, now, pending, hist, msgSub, call>>

\* closeModal: the cancel button, the close button and the overlay
CloseModalSettings ==
    /\ app = "settings"
    /\ Len(component.emitted) < MaxEvents
    /\ lastOp' = Op("close", <<>>)
    /\ component' = [component EXCEPT !.validationMessage = <<>>,
                                      !.emitted = Append(@, "close")]
    /\ UNCHANGED <<app, messages, selectedModel, isTyping, errorMessage,
                   geminiService, localStorage, now, pending, hist, msgSub, call>>

NextSettings ==
    \/ \E k \in ModalInputs : SetApiKeyInput(k)
    \/ SaveSettings
    \/ ClearApiKeySettings
    \/ CloseModalSettings

SpecSettings == InitSettings /\ [][NextSettings]_vars

InitSettingsSaved ==
    /\ app = "settingsSaved"
    /\ messages = <<>>
    /\ selectedModel = "openai"
    /\ isTyping = FALSE
    /\ errorMessage = <<>>
    /\ geminiService = None
    /\ \E k \in StoredKeys :
          /\ localStorage = [EmptyStore EXCEPT ![STORAGE_KEY] = k]
          /\ component = Modal(LoadApiKey(<<>>, k), <<>>, <<>>, <<>>, FALSE, 0, 0)
    /\ now = 0
    /\ pending = <<>>
    /\ hist = <<>>
    /\ msgSub = <<>>
    /\ lastOp = Op("mount", <<>>)
    /\ call = NoCall

\* The parent sets isOpen (openSettings); the watcher loads the stored key
OpenSettings ==
    /\ app = "settingsSaved"
    /\ ~component.isOpen
    /\ lastOp' = Op("open", <<>>)
    /\ component' = [component EXCEPT
                        !.isOpen = TRUE,
                        !.geminiApiKey = LoadApiKey(@, localStorage[STORAGE_KEY])]
    /\ UNCHANGED <<app, messages, selectedModel, isTyping, errorMessage,
                   geminiService, localStorage, now, pending, hist, msgSub, call>>

\* saveApiKey: the save button, or Enter in the dialog.  The store is taken
\* to accept the write
SaveApiKey ==
    /\ app = "settingsSaved"
    /\ component.isOpen
    /\ lastOp' = Op("save", component.geminiApiKey)
    /\ IF ~KeyGiven(component.geminiApiKey)
       THEN /\ component' = [component EXCEPT
                                !.validationMessage = <<"API key is required">>]
            /\ UNCHANGED localStorage
       ELSE /\ Len(component.emitted) < MaxEvents
            /\ localStorage' = [localStorage EXCEPT
                                   ![STORAGE_KEY] = Some(Trim(component.geminiApiKey))]
            /\ component' = [component EXCEPT
                                !.validationMessage = <<>>,
                                !.successMessage = <<"API key saved successfully">>,
                                !.emitted = Append(@, "settings-saved"),
                                !.closeTimers = @ + 1]
    /\ UNCHANGED <<app, messages, selectedModel, isTyping, errorMessage,
                   geminiService, now, pending, hist, msgSub, call>>

\* clearApiKey: the clear button
ClearApiKeySaved ==
    /\ app = "settingsSaved"
    /\ component.isOpen
    /\ lastOp' = Op("clear", <<>>)
    /\ localStorage' = [localStorage EXCEPT ![STORAGE_KEY] = None]
    /\ component' = [component EXCEPT !.geminiApiKey = <<>>,
                                      !.successMessage = <<"API key cleared">>,
                                      !.validationMessage = <<>>]
    /\ UNCHANGED <<app, messages, selectedModel, isTyping, errorMessage,
                   geminiService, now, pending, hist, msgSub, call>>

\* closeModal: emits update:isOpen(false), which the parent's v-model applies,
\* and starts the 300 ms timer that resets the messages
CloseModal(c) ==
    [c EXCEPT !.emitted = Append(@, "update:isOpen"),
              !.isOpen = FALSE,
              !.resetTimers = @ + 1]

\* closeModal from the dialog: close button, cancel button, overlay, Escape
CloseModalSaved ==
    /\ app = "settingsSaved"
    /\ component.isOpen
    /\ Len(component.emitted) < MaxEvents
    /\ lastOp' = Op("close", <<>>)
    /\ component' = CloseModal(component)
    /\ UNCHANGED <<app, messages, selectedModel, isTyping, errorMessage,
                   geminiService, localStorage, now, pending, hist, msgSub, call>>

\* The 1500 ms timer started by a save fires and calls closeModal
CloseTimerFires ==
    /\ app = "settingsSaved"
    /\ component.closeTimers > 0
    /\ Len(component.emitted) < MaxEvents
    /\ lastOp' = Op("timer", <<>>)
    /\ component' = CloseModal([component EXCEPT !.closeTimers = @ - 1])
    /\ UNCHANGED <<app, messages, selectedModel, isTyping, errorMessage,
                   geminiService, localStorage, now, pending, hist, msgSub, call>>

\* The 300 ms timer started by closeModal fires and resets the messages
ResetTimerFires ==
    /\ app = "settingsSaved"
    /\ component.resetTimers > 0
    /\ lastOp' = Op("timer", <<>>)
    /\ component' = [component EXCEPT !.resetTimers = @ - 1,
                                      !.validationMessage = <<>>,
                                      !.successMessage = <<>>]
    /\ UNCHANGED <<app, messages, selectedModel, isTyping, errorMessage,
                   geminiService, localStorage, now, pending, hist, msgSub, call>>

NextSettingsSaved ==
    \/ \E k \in ModalInputs : SetApiKeyInput(k)
    \/ OpenSettings
    \/ SaveApiKey
    \/ ClearApiKeySaved
    \/ CloseModalSaved
    \/ CloseTimerFires
    \/ ResetTimerFires

SpecSettingsSaved == InitSettingsSaved /\ [][NextSettingsSaved]_vars

\* The two settings modals
InitModal == InitSettings \/ InitSettingsSaved
NextModal == NextSettings \/ NextSettingsSaved
SpecModal == InitModal /\ [][NextModal]_vars

----------------------------------------------------------------------------
(* ChatInput *)

\* The refs of ChatInput and the payloads of the 'send-message' events emitted
Input(message, isComposing, emitted) ==
    [kind |-> "input", message |-> message, isComposing |-> isComposing,
     emitted |-> emitted]

InitInput ==
    /\ app = "input"
    /\ messages = <<>>
    /\ selectedModel = "openai"
    /\ isTyping = FALSE
    /\ errorMessage = <<>>
    /\ geminiService = None
    /\ localStorage = EmptyStore
    /\ now = 0
    /\ pending = <<>>
    /\ hist = <<>>
    /\ msgSub = <<>>
    /\ lastOp = Op("mount", <<>>)
    /\ call = NoCall
    /\ component = Input(<<>>, FALSE, <<>>)

\* v-model on the textarea: the user edits the text
SetMessage(t) ==
    /\ app = "input"
    /\ t # component.message
    /\ component' = [component EXCEPT !.message = t]
    /\ lastOp' = Op("input", <<>>)
    /\ UNCHANGED <<app, messages, selectedModel, isTyping, errorMessage,
                   geminiService, localStorage, now, pending, hist, msgSub, call>>

HandleCompositionStart ==
    /\ app = "input"
    /\ component' = [component EXCEPT !.isComposing = TRUE]
    /\ lastOp' = Op("compositionstart", <<>>)
    /\ UNCHANGED <<app, messages, selectedModel, isTyping, errorMessage,
                   geminiService, localStorage, now, pending, hist, msgSub, call>>

HandleCompositionEnd ==
    /\ app = "input"
    /\ component' = [component EXCEPT !.isComposing = FALSE]
    /\ lastOp' = Op("compositionend", <<>>)
    /\ UNCHANGED <<app, messages, selectedModel, isTyping, errorMessage,
                   geminiService, localStorage, now, pending, hist, msgSub, call>>

\* Variant of Sendable that ignores an IME composition in progress
SendableWhileComposing(c) == Trim(c.message) # <<>>

\* `message.value.trim() && !isComposing.value`: the guard of sendMessage
Sendable(c) == Trim(c.message) # <<>> /\ ~c.isComposing

\* ChatInput.sendMessage: the send button, or Enter without Shift
SendMessageInput ==
    /\ app = "input"
    /\ lastOp' = Op("send", component.message)
    /\ IF Sendable(component)
       THEN /\ Len(component.emitted) < MaxEvents
            /\ component' = [component EXCEPT
                                !.emitted = Append(@, Trim(component.message)),
                                !.message = <<>>]
       ELSE UNCHANGED component
    /\ UNCHANGED <<app, messages, selectedModel, isTyping, errorMessage,
                   geminiService, localStorage, now, pending, hist, msgSub, call>>

NextInput ==
    \/ \E t \in Texts : SetMessage(t)
    \/ HandleCompositionStart
    \/ HandleCompositionEnd
    \/ SendMessageInput

SpecInput == InitInput /\ [][NextInput]_vars

----------------------------------------------------------------------------
(* GeminiApiService: construction, updateApiKey, isConfigured *)

\* The fields of an instance: config.apiKey and model (None when null)
ServiceFields(apiKey, model) == [apiKey |-> apiKey, model |-> model]

\* The instance the caller holds (None before a constructor has returned)
\* and the message of the error the last call threw (None when it returned)
Instance(service, thrown) ==
    [kind |-> "instance", service |-> service, thrown |-> thrown]

\* Keys passed to the constructor and to updateApiKey (None for null)
ApiKeys == StoredKeys \cup {Some(<<" ", "k2">>)}

InitInstance ==
    /\ app = "instance"
    /\ messages = <<>>
    /\ selectedModel = "openai"
    /\ isTyping = FALSE
    /\ errorMessage = <<>>
    /\ geminiService = None
    /\ localStorage = EmptyStore
    /\ now = 0
    /\ pending = <<>>
    /\ hist = <<>>
    /\ msgSub = <<>>
    /\ lastOp = Op("mount", <<>>)
    /\ call = NoCall
    /\ component = Instance(None, None)

\* new GeminiApiService({apiKey}); sdkOk tells whether the SDK calls of
\* initialize() return (TRUE) or throw
Construct(apiKey, sdkOk) ==
    /\ app = "instance"
    /\ lastOp' = Op("new", apiKey)
    /\ component' =
          IF ~Truthy(apiKey)
          THEN [component EXCEPT !.thrown = Some(<<"API key is required">>)]
          ELSE IF ~sdkOk
          THEN [component EXCEPT
                   !.thrown = Some(<<"Failed to initialize ", "Gemini API", ": ">>)]
          ELSE Instance(Some(ServiceFields(apiKey[1], Some("gemini-pro"))), None)
    /\ UNCHANGED <<app, messages, selectedModel, isTyping, errorMessage,
                   geminiService, localStorage, now, pending, hist, msgSub, call>>

\* Variant of UpdateRefused that refuses the empty string and null only
UpdateRefusedUntrimmed(apiKey) == ~Truthy(apiKey)

\* `!apiKey?.trim()`: the guard of updateApiKey
UpdateRefused(apiKey) == apiKey = None \/ Trim(apiKey[1]) = <<>>

\* service.updateApiKey(apiKey) on the instance held
UpdateApiKey(apiKey, sdkOk) ==
    /\ app = "instance"
    /\ component.service # None
    /\ lastOp' = Op("updateApiKey", apiKey)
    /\ component' =
          IF UpdateRefused(apiKey)
          THEN [component EXCEPT !.thrown = Some(<<"API key cannot be empty">>)]
          ELSE IF ~sdkOk
          THEN [component EXCEPT
                   !.service[1].apiKey = apiKey[1],
                   !.thrown = Some(<<"Failed to initialize ", "Gemini API", ": ">>)]
          ELSE Instance(Some(ServiceFields(apiKey[1], Some("gemini-pro"))), None)
    /\ UNCHANGED <<app, messages, selectedModel, isTyping, errorMessage,
                   geminiService, localStorage, now, pending, hist, msgSub, call>>

\* isConfigured(): !!this.config.apiKey && !!this.model
IsConfigured(fields) == fields.apiKey # <<>> /\ fields.model # None

NextInstance ==
    \/ \E k \in ApiKeys, ok \in BOOLEAN : Construct(k, ok)
    \/ \E k \in ApiKeys, ok \in BOOLEAN : UpdateApiKey(k, ok)

SpecInstance == InitInstance /\ [][NextInstance]_vars

----------------------------------------------------------------------------
(* Specifications *)

Init ==
    \/ InitEcho \/ InitGemini \/ InitService \/ InitClient
    \/ InitSettings \/ InitSettingsSaved \/ InitInput \/ InitInstance

Next ==
    \/ NextEcho \/ NextGemini \/ NextService \/ NextClient
    \/ NextSettings \/ NextSettingsSaved \/ NextInput \/ NextInstance

Spec == Init /\ [][Next]_vars

\* The components around the conversation: the two settings modals, the
\* chat input and the service instance
InitParts == InitModal \/ InitInput \/ InitInstance
NextParts == NextModal \/ NextInput \/ NextInstance
SpecParts == InitParts /\ [][NextParts]_vars

\* The API layer alone: the SDK-based service and the fetch-based client
InitApi == InitService \/ InitClient
NextApi == NextService \/ NextClient
SpecApi == InitApi /\ [][NextApi]_vars

\* The two ChatInterface variants
InitChat == InitEcho \/ InitGemini
NextChat == NextEcho \/ NextGemini
SpecChat == InitChat /\ [][NextChat]_vars

\* The two ChatInterface variants with the settings modal left alone; a
\* timer that is due fires, and a generateResponse promise settles
NextExchange ==
    \/ NextEcho
    \/ \E c \in Texts : SendMessageGemini(c)
    \/ ResumeTimerGemini
    \/ \E i \in 1..MaxSubmissions, o \in ChatOutcomes : ResumeGemini(i, o)
    \/ ClearChatGemini

FairSpecExchange ==
    /\ InitChat
    /\ [][NextExchange]_vars
    /\ WF_vars(TimerCallbackEcho)
    /\ WF_vars(ResumeTimerGemini)
    /\ WF_vars(\E i \in 1..MaxSubmissions, o \in ChatOutcomes : ResumeGemini(i, o))

\* sendMessage called while no exchange is in flight: the one-exchange-at-a-
\* time usage of the chat (the component itself does not enforce it)
SerialSendMessage(content) ==
    /\ pending = <<>>
    /\ \/ SendMessageEcho(content)
       \/ SendMessageGemini(content)

NextSerial ==
    \/ \E c \in Texts : SerialSendMessage(c)
    \/ TimerCallbackEcho
    \/ ResumeTimerGemini
    \/ \E i \in 1..MaxSubmissions, o \in ChatOutcomes : ResumeGemini(i, o)
    \/ ClearChatEcho
    \/ ClearChatGemini
    \/ \E k \in KeyInputs : SettingsSaved(k)
    \/ StoredKeyCleared
    \/ \E m \in Models : SelectModel(m)
    \/ Tick

SpecSerial == InitChat /\ [][NextSerial]_vars

----------------------------------------------------------------------------
(* Properties of the API layer *)

BlankArgument(x) == x = None \/ Trim(x[1]) = <<>>

\* C6: a prompt that is empty after trimming fails at once with the
\* empty-prompt error and no request: generateResponse resolves to
\* {success: false, content: '', error: 'Prompt cannot be empty'} without
\* calling generateContent, and sendGeminiMessage rejects with 'Message cannot
\* be empty' without calling fetch.
C6_EmptyPromptFailsWithoutRequest ==
    (call.pc # "none" /\ BlankArgument(call.input)) =>
        /\ call.pc = "done"
        /\ call.requests = 0
        /\ app = "service" =>
               /\ call.result.state = "fulfilled"
               /\ call.result.value =
                      [content |-> <<>>, success |-> FALSE,
                       error |-> <<(<<"Prompt cannot be empty">>)>>]
        /\ app = "client" =>
               /\ call.result.state = "rejected"
               /\ call.result.reason =
                      [type |-> "Error", message |-> <<"Message cannot be empty">>]

\* A whitespace-only prompt has been refused by the service
C6_Witness ==
    /\ app = "service"
    /\ call.pc = "done"
    /\ call.input = <<(<<"\n", " ">>)>>
    /\ call.requests = 0

NonSuccess ==
    /\ app = "client"
    /\ call.pc = "done"
    /\ call.response.kind = "response"
    /\ ~call.response.ok

ServiceErrorWith(reason) ==
    /\ call.result.state = "rejected"
    /\ call.result.reason =
           [type |-> "Error", message |-> <<"Gemini API", " error: ">> \o reason]

\* The body of the response parsed to an object with error.message = m
BodyHasErrorMessage ==
    /\ call.response.body.kind = "object"
    /\ call.response.body.error # None
    /\ call.response.body.error[1] # None

\* C8 as stated: on a non-success status whose body parses to an object with
\* error.message = m, sendGeminiMessage rejects with the service error
\* 'Gemini API error: m', for every m.
C8_ServiceErrorCarriesAnyMessage ==
    (NonSuccess /\ BodyHasErrorMessage) =>
        ServiceErrorWith(call.response.body.error[1][1])

\* C8 amended: for every non-empty m the call rejects with the service error
\* 'Gemini API error: m', which the outer catch passes on unchanged; for
\* m = '' the reason is the status line '<status> <status text>'.
C8_ServiceErrorCarriesMessage ==
    (NonSuccess /\ BodyHasErrorMessage) =>
        LET m == call.response.body.error[1][1] IN
        IF m # <<>>
        THEN ServiceErrorWith(m)
        ELSE ServiceErrorWith(<<ToString(call.response.status), " ">>
                                \o call.response.statusText)

\* A 400 response with body {"error": {"message": "Invalid API key"}} has
\* been turned into its rejection
C8_Witness ==
    /\ NonSuccess
    /\ call.response.status = 400
    /\ BodyHasErrorMessage
    /\ call.response.body.error[1][1] = <<"Invalid API key">>
    /\ call.result.state = "rejected"

\* C9: on a non-success status whose body cannot be parsed, sendGeminiMessage
\* rejects with a service error whose reason is exactly
\* '<status code> <status text>'.
C9_UnparsableBodyGivesStatusLine ==
    (NonSuccess /\ call.response.body.kind = "unparsable") =>
        ServiceErrorWith(<<ToString(call.response.status), " ">>
                           \o call.response.statusText)

\* A 400 'Bad Request' response with an unparsable body has been rejected
C9_Witness ==
    /\ NonSuccess
    /\ call.response.status = 400
    /\ call.response.statusText = <<"Bad Request">>
    /\ call.response.body.kind = "unparsable"
    /\ call.result.state = "rejected"

HasPrefix(s, p) == Len(s) >= Len(p) /\ SubSeq(s, 1, Len(p)) = p

\* The three failure classes of the client, told apart by the message
IsTransportError(r) ==
    /\ r.state = "rejected"
    /\ r.reason.type = "Error"
    /\ HasPrefix(r.reason.message, <<"Failed to connect to ", "Gemini API", ": ">>)

\* A success response with no candidate, or whose first candidate has no part
EmptyResponseBody(b) ==
    /\ b.kind = "object"
    /\ \/ b.candidates = None
       \/ b.candidates[1] = <<>>
       \/ /\ b.candidates[1][1].kind # "null"
          /\ b.candidates[1][1].parts = <<>>

\* C10: when fetch rejects with an Error c, sendGeminiMessage rejects with
\* 'Failed to connect to Gemini API: <c.message>', for every c (so a transport
\* failure is never reported as a service or an empty-response error), and a
\* service failure or an empty response is never reported as a transport error.
C10_TransportErrorsCarryCause ==
    (app = "client" /\ call.pc = "done" /\ call.response.kind # "none") =>
        /\ (call.response.kind = "rejects" /\ call.response.cause.type = "Error") =>
               /\ call.result.state = "rejected"
               /\ call.result.reason =
                      [type |-> "Error",
                       message |-> <<"Failed to connect to ", "Gemini API", ": ">>
                                     \o call.response.cause.message]
        /\ (call.response.kind = "response" /\ ~call.response.ok) =>
               ~IsTransportError(call.result)
        /\ (call.response.kind = "response" /\ call.response.ok
               /\ EmptyResponseBody(call.response.body)) =>
               ~IsTransportError(call.result)

----------------------------------------------------------------------------
(* Properties of the conversation *)

Subs == 1..Len(hist)

\* Positions in the log of the messages submission s pushed as `sender`
InLog(s, sender) ==
    {i \in 1..Len(messages) : msgSub[i] = s /\ messages[i].sender = sender}

Awaiting == {s \in Subs : hist[s].status = "pending"}

\* The step that led to this state was sendMessage with a non-blank text
JustSubmitted == lastOp.op = "sendMessage" /\ Trim(lastOp.arg) # <<>>

\* C1 as stated: every submission that has completed, by success or by
\* failure, has had exactly one assistant message appended for it.
C1_OneAssistantMessageWhateverOutcome ==
    \A s \in Subs : hist[s].status # "pending" => hist[s].ai = 1

C1_Safety ==
    /\ JustSubmitted =>
          /\ messages # <<>>
          /\ messages[Len(messages)].sender = "user"
          /\ messages[Len(messages)].content = Trim(lastOp.arg)
          /\ msgSub[Len(messages)] = Len(hist)
    /\ \A s \in Subs :
          /\ Cardinality(InLog(s, "user")) <= 1
          /\ Cardinality(InLog(s, "ai")) <= hist[s].ai
          /\ hist[s].status = "pending" => hist[s].ai = 0
          /\ hist[s].status = "ok" => hist[s].ai = 1
          /\ hist[s].status = "failed" => (hist[s].ai = 0 /\ app = "gemini")

\* C1 amended: sendMessage with a non-blank text appends exactly one user
\* message with content = trim(text), and the submission eventually
\* completes: with exactly one assistant message when the exchange succeeds
\* (always, in the echo-only variant), and with no assistant message when a
\* Gemini exchange fails (the failure goes to the errorMessage banner).
C1_OneUserMessageThenCompletion ==
    /\ []C1_Safety
    /\ \A s \in 1..MaxSubmissions :
          (Len(hist) >= s) ~> (Len(hist) >= s /\ hist[s].status # "pending")

\* One exchange has succeeded and a later Gemini exchange has failed
C1_Witness ==
    /\ app = "gemini"
    /\ Len(hist) = 2
    /\ hist[1].status = "ok" /\ InLog(1, "ai") # {}
    /\ hist[2].status = "failed" /\ hist[2].calls = 1 /\ InLog(2, "user") # {}

\* C2: isTyping is true exactly while some submission awaits its response,
\* for every interleaving of submissions and completions.
C2_TypingExactlyWhileAwaiting ==
    isTyping = (Awaiting # {})

\* C3: clearChat leaves the log empty and isTyping false, in any state.
C3_ClearEmptiesLogAndResetsTyping ==
    lastOp.op = "clearChat" => (Len(messages) = 0 /\ isTyping = FALSE)

\* C4: sendMessage with an empty or whitespace-only text appends nothing,
\* leaves the typing flag alone and starts no completion call: nothing but
\* the record of the call itself changes.
C4_BlankInputChangesNothing ==
    [][ (lastOp'.op = "sendMessage" /\ Trim(lastOp'.arg) = <<>>) =>
            UNCHANGED <<messages, selectedModel, isTyping, errorMessage,
                        geminiService, localStorage, now, pending, hist, msgSub>>
      ]_vars

\* A whitespace-only text was submitted while a response was pending
C4_Witness ==
    /\ lastOp = [op |-> "sendMessage", arg |-> <<" ">>]
    /\ messages # <<>>
    /\ isTyping
    /\ pending # <<>>

\* Submission s fails in this step
Fails(s) ==
    /\ s \in 1..Len(hist')
    /\ hist'[s].status = "failed"
    /\ s \in Subs => hist[s].status = "pending"

\* C5: in the Gemini-enabled variant, the step in which an exchange fails
\* leaves isTyping false and a non-empty errorMessage, and the user message
\* of the submission stays in the log.
C5_FailureResetsTypingAndShowsError ==
    [][ \A s \in 1..MaxSubmissions :
            Fails(s) =>
                /\ isTyping' = FALSE
                /\ errorMessage' # <<>>
                /\ (s \notin Subs \/ InLog(s, "user") # {}) => InLog(s, "user")' # {}
      ]_vars

\* A call to generateResponse has failed: the banner is up, the flag is
\* down and the user message is still in the log
C5_Witness ==
    /\ app = "gemini"
    /\ \E s \in Subs :
          /\ hist[s].status = "failed"
          /\ hist[s].calls = 1
          /\ InLog(s, "user") # {}
    /\ errorMessage = <<"Content blocked by safety filters">>
    /\ ~isTyping

\* No usable credential: absent, empty or whitespace-only
CredentialMissing(k) == k = None \/ Trim(k[1]) = <<>>

\* C7: with no credential in the store at exchange time, a Gemini exchange
\* fails as missing-credential and makes no request: sendGeminiMessage does
\* not call fetch, and the Gemini-enabled sendMessage does not call
\* generateResponse.
C7_NoCredentialNoRequest ==
    /\ (app = "client" /\ call.pc # "none" /\ ~BlankArgument(call.input)
           /\ CredentialMissing(localStorage[ClientStorageKey])) =>
          /\ call.pc = "done"
          /\ call.requests = 0
          /\ call.result.state = "rejected"
          /\ call.result.reason =
                 [type |-> "Error",
                  message |-> <<"Gemini API",
                                " key not found. Please configure it in settings.">>]
    /\ (app = "gemini" /\ JustSubmitted /\ selectedModel = "gemini"
           /\ CredentialMissing(localStorage[STORAGE_KEY])) =>
          /\ hist[Len(hist)].status = "failed"
          /\ hist[Len(hist)].calls = 0
          /\ errorMessage =
                 <<"Gemini API", " key not configured. Please set it in settings.">>

----------------------------------------------------------------------------
(* Properties of the API layer: responses *)

SuccessResponse ==
    /\ app = "client"
    /\ call.pc = "done"
    /\ call.response.kind = "response"
    /\ call.response.ok

\* A parsed success body with no usable text: no candidate at all, or a
\* first candidate whose parts list is empty or holds only empty texts
NoUsableText(b) ==
    /\ b.kind = "object"
    /\ b.candidates # None
    /\ \/ b.candidates[1] = <<>>
       \/ /\ b.candidates[1][1].kind = "parts"
          /\ \A i \in 1..Len(b.candidates[1][1].parts) :
                 b.candidates[1][1].parts[i] = <<(<<>>)>>

\* C11: a success response with no usable text (empty candidate list, empty
\* parts list, or text parts that are all empty strings) is an EmptyResponse
\* failure, never a success with empty content: sendGeminiMessage rejects with
\* 'No response from Gemini API' and generateResponse resolves to
\* {success: false, content: '', error: 'No response generated'}.
C11_NoUsableTextIsEmptyResponse ==
    /\ (SuccessResponse /\ NoUsableText(call.response.body)) =>
          /\ call.result.state = "rejected"
          /\ call.result.reason =
                 [type |-> "Error", message |-> <<"No response from ", "Gemini API">>]
    /\ (app = "service" /\ call.pc = "done" /\ call.response.kind = "text"
           /\ call.response.text = <<>>) =>
          /\ call.result.state = "fulfilled"
          /\ call.result.value =
                 [content |-> <<>>, success |-> FALSE,
                  error |-> <<(<<"No response generated">>)>>]

\* The text of each part, in order; a part with no text counts as ''
TextSegments(parts) ==
    [i \in 1..Len(parts) |-> IF parts[i] = <<>> THEN <<>> ELSE parts[i][1]]

RECURSIVE ConcatFirst(_, _)
\* The first n segments written one after the other
ConcatFirst(segs, n) ==
    IF n = 0 THEN <<>> ELSE ConcatFirst(segs, n - 1) \o segs[n]

\* A parsed success body whose first candidate has at least one part
HasSegments(b) ==
    /\ b.kind = "object"
    /\ b.candidates # <<>>
    /\ b.candidates[1] # <<>>
    /\ b.candidates[1][1].kind = "parts"
    /\ b.candidates[1][1].parts # <<>>

\* C12: on a success response sendGeminiMessage resolves to success = true
\* with content equal to the text segments of the (first) candidate written
\* one after the other, in order, with nothing added between them; segments
\* ['Hello! ', 'How can I help?'] give 'Hello! How can I help?'.
C12_ContentIsSegmentsInOrder ==
    (SuccessResponse /\ HasSegments(call.response.body)) =>
        LET segs == TextSegments(call.response.body.candidates[1][1].parts) IN
        /\ call.result.state = "fulfilled"
        /\ call.result.value.success
        /\ call.result.value.content = ConcatFirst(segs, Len(segs))
        /\ segs = << <<"Hello! ">>, <<"How can I help?">> >> =>
               call.result.value.content = <<"Hello! ", "How can I help?">>

\* The two-segment response has been returned to the caller
C12_Witness ==
    /\ SuccessResponse
    /\ HasSegments(call.response.body)
    /\ Len(call.response.body.candidates[1][1].parts) = 2
    /\ call.result.state = "fulfilled"
    /\ call.result.value.content = <<"Hello! ", "How can I help?">>

\* C13: generateResponse never rejects: for every prompt and every outcome
\* of the model call (text, empty text, rejection with any value) the promise
\* resolves to a result, and a failure result has success = false,
\* content = '' and a non-empty error string.
C13_GenerateResponseAlwaysResolves ==
    (app = "service" /\ call.pc = "done") =>
        /\ call.result.state = "fulfilled"
        /\ ~call.result.value.success =>
               /\ call.result.value.content = <<>>
               /\ call.result.value.error # <<>>
               /\ call.result.value.error[1] # <<>>

----------------------------------------------------------------------------
(* Properties of the conversation log *)

\* C14: at every moment the messages of the log have pairwise distinct ids,
\* whatever the timing of submissions and response arrivals.
C14_MessageIdsDistinct ==
    \A i, j \in 1..Len(messages) :
        i # j => messages[i].id # messages[j].id

IsPrefix(s, t) == Len(s) <= Len(t) /\ SubSeq(t, 1, Len(s)) = s

\* C15: between clears the log only grows at its end: a step that is not
\* clearChat leaves every existing entry in place and unchanged and appends at
\* most one entry, and clearChat removes all entries at once.
C15_LogIsAppendOnly ==
    [][ IF lastOp'.op = "clearChat"
        THEN messages' = <<>>
        ELSE /\ IsPrefix(messages, messages')
             /\ Len(messages') <= Len(messages) + 1
      ]_vars

\* The log was cleared while an exchange was in flight and has grown since:
\* it starts with the response to a message that is gone
C15_Witness ==
    /\ Len(messages) >= 2
    /\ messages[1].sender = "ai"
    /\ lastOp.op # "clearChat"

\* C16: every message in the log has content that is non-empty after
\* trimming: user messages, echo responses and responses of the Gemini
\* service.
C16_ContentNeverBlank ==
    \A i \in 1..Len(messages) : Trim(messages[i].content) # <<>>

\* C17 as stated: when each submission is made while no other exchange is
\* in flight, user and assistant messages alternate in the log and the k-th
\* assistant message is the response to the k-th user message.
C17_SerialLogAlternates ==
    \A i \in 1..Len(messages) :
        /\ messages[i].sender = (IF i % 2 = 1 THEN "user" ELSE "ai")
        /\ i % 2 = 0 => msgSub[i] = msgSub[i - 1]

Alternates ==
    \A i \in 1..Len(messages) :
        messages[i].sender = (IF i % 2 = 1 THEN "user" ELSE "ai")

\* C17 amended: when each submission is made while no other exchange is in
\* flight, the log is in submission order and every assistant message comes
\* right after the user message it responds to, or first in the log when
\* clearChat removed that user message while the exchange was in flight; a
\* failed Gemini exchange leaves its user message without a response.  User
\* and assistant messages alternate as long as no exchange has failed and the
\* log does not start with such a left-over response.
C17_SerialResponseFollowsItsMessage ==
    /\ \A i, j \in 1..Len(messages) : i < j => msgSub[i] <= msgSub[j]
    /\ \A i \in 1..Len(messages) :
          messages[i].sender = "ai" =>
              IF InLog(msgSub[i], "user") = {}
              THEN i = 1
              ELSE /\ i > 1
                   /\ messages[i - 1].sender = "user"
                   /\ msgSub[i - 1] = msgSub[i]
    /\ \A s \in Subs : hist[s].status = "failed" => InLog(s, "ai") = {}
    /\ ( /\ \A s \in Subs : hist[s].status # "failed"
         /\ messages # <<>> => messages[1].sender = "user" ) => Alternates

\* Two exchanges made one after the other have both been answered
C17_Witness ==
    /\ pending = <<>>
    /\ Len(messages) = 4
    /\ msgSub = <<1, 1, 2, 2>>
    /\ Alternates

\* The suspended call of submission s (s is awaiting its response)
WaitOf(s) == pending[CHOOSE i \in 1..Len(pending) : pending[i].sub = s]

\* Submission s, made with a model other than 'gemini' active, is answered
\* in this step
EchoAnswered(s) ==
    /\ s \in Subs
    /\ hist[s].status = "pending"
    /\ hist'[s].status = "ok"
    /\ WaitOf(s).model # "gemini"

\* C18: a submission of text t made with a model other than 'gemini' active
\* makes no network call and is answered, no sooner than the fixed delay
\* after it, by one appended assistant message whose content is exactly
\* 'Response from <that model>: <t>'.
C18_EchoNamesTheActiveModel ==
    [][ \A s \in 1..MaxSubmissions :
            EchoAnswered(s) =>
                /\ hist'[s].calls = 0
                /\ now' >= WaitOf(s).due
                /\ Len(messages') = Len(messages) + 1
                /\ messages'[Len(messages')].sender = "ai"
                /\ messages'[Len(messages')].content =
                       <<"Response from ", WaitOf(s).model, ": ">> \o WaitOf(s).content
      ]_vars

----------------------------------------------------------------------------
(* Properties of the requests made *)

\* The call to generateResponse made by the sendMessage that has just run
JustCalledService ==
    /\ app = "gemini"
    /\ JustSubmitted
    /\ pending # <<>>
    /\ pending[Len(pending)].kind = "gemini"
    /\ pending[Len(pending)].sub = Len(hist)

\* C19: the prompt carried by a completion request is the trimmed user text:
\* for every input t with a non-empty trim, the request body built by
\* sendGeminiMessage carries trim(t), and sendMessage calls generateResponse
\* with trim(t).
C19_PromptIsTrimmedText ==
    /\ (app = "client" /\ call.pc # "none" /\ call.requests > 0) =>
          call.sent.text = Trim(call.input[1])
    /\ JustCalledService =>
          pending[Len(pending)].content = Trim(lastOp.arg)

\* The call under test has passed the validation of its arguments (and, for
\* sendGeminiMessage, of the stored credential)
PassedValidation ==
    /\ call.pc # "none"
    /\ ~BlankArgument(call.input)
    /\ app = "client" => ~CredentialMissing(localStorage[ClientStorageKey])

\* C20: a completion call that passes validation issues exactly one request
\* (one fetch in sendGeminiMessage, one generateContent in generateResponse),
\* while it is in flight and after it has ended by success or by any
\* failure; a call that fails validation issues none; and one submission
\* causes at most one completion call.
C20_OneRequestPerCall ==
    /\ (app \in {"service", "client"} /\ call.pc # "none") =>
          call.requests = (IF PassedValidation THEN 1 ELSE 0)
    /\ \A s \in Subs : hist[s].calls <= 1
    /\ \A s \in Subs :
          Cardinality({i \in 1..Len(pending) : pending[i].sub = s}) <= 1

\* sendGeminiMessage has ended in failure because fetch rejected, one
\* request made
C20_Witness ==
    /\ app = "client"
    /\ call.pc = "done"
    /\ call.response.kind = "rejects"
    /\ call.result.state = "rejected"
    /\ call.requests = 1

----------------------------------------------------------------------------
(* Properties of the stored credential and of the settings modal *)

\* C21: the stored API key is changed only by the settings modal's save and
\* clear actions: a step that changes the store is a save or a clear of a
\* modal, and is not (part of) sendMessage, clearChat, generateResponse or
\* sendGeminiMessage, whether the exchange succeeds or fails.
C21_OnlySettingsChangeTheKey ==
    [][ localStorage' # localStorage =>
            /\ app \in {"settings", "settingsSaved", "gemini"}
            /\ app = "gemini" =>
                   /\ lastOp'.op = "other"
                   /\ UNCHANGED <<messages, msgSub, pending, hist, isTyping, call>>
            /\ app # "gemini" => lastOp'.op \in {"save", "clear"}
      ]_vars

\* A Gemini exchange has failed, the chat has been cleared, and the key saved
\* in the store is still there
C21_Witness ==
    /\ app = "gemini"
    /\ lastOp.op = "clearChat"
    /\ \E s \in Subs : hist[s].status = "failed" /\ hist[s].calls = 1
    /\ localStorage[STORAGE_KEY] = <<(<<"k1">>)>>

\* The step was the save action of a modal with a blank key in the field
BlankSave ==
    /\ app \in {"settings", "settingsSaved"}
    /\ lastOp'.op = "save"
    /\ Trim(lastOp'.arg) = <<>>

OtherEntriesUnchanged ==
    \A k \in StorageKeys \ {ModalStorageKey} : localStorage'[k] = localStorage[k]

----------------------------------------------------------------------------
(* Properties of the GeminiApiService instance *)

RejectionMessage(e) == IF e.type = "Error" THEN e.message ELSE <<>>

\* The rules of the claim, first match first
FirstMatchingRule(m) ==
    IF Includes(m, <<"API_KEY_INVALID">>) THEN <<"Invalid API key">>
    ELSE IF Includes(m, <<"SAFETY">>) THEN <<"Content blocked by safety filters">>
    ELSE IF Includes(m, <<"QUOTA_EXCEEDED">>) THEN <<"API quota exceeded">>
    ELSE IF m # <<>> THEN m
    ELSE <<"Failed to generate response">>

\* C25: when the model call rejects, generateResponse resolves to a failure
\* whose error is given by the first matching rule: 'API_KEY_INVALID', then
\* 'SAFETY', then 'QUOTA_EXCEEDED', then any other non-empty message passed
\* through, and 'Failed to generate response' for a rejection with no message.
C25_RejectionClassifiedByFirstRule ==
    (app = "service" /\ call.pc = "done" /\ call.response.kind = "reject") =>
        /\ call.result.state = "fulfilled"
        /\ call.result.value =
               [content |-> <<>>, success |-> FALSE,
                error |-> <<FirstMatchingRule(RejectionMessage(call.response.error))>>]

----------------------------------------------------------------------------
(* Properties of ChatInput *)

\* C26: ChatInput.sendMessage emits 'send-message' with trim(message) and
\* empties the field if and only if the trimmed message is non-empty and no
\* IME composition is in progress; otherwise it emits nothing and leaves the
\* field as it is.  Every payload emitted is non-empty and trimmed.
C26_EmitsTrimmedOnlyWhenSendable ==
    /\ []( app = "input" =>
              \A i \in 1..Len(component.emitted) :
                  /\ component.emitted[i] # <<>>
                  /\ Trim(component.emitted[i]) = component.emitted[i] )
    /\ [][ (app = "input" /\ lastOp'.op = "send") =>
               IF Trim(component.message) # <<>> /\ ~component.isComposing
               THEN /\ component'.emitted =
                           Append(component.emitted, Trim(component.message))
                    /\ component'.message = <<>>
                    /\ component'.isComposing = component.isComposing
               ELSE component' = component
         ]_vars

\* Enter was pressed during a composition with text in the field (nothing
\* sent), after an earlier padded message had been sent trimmed
C26_Witness ==
    /\ app = "input"
    /\ lastOp = [op |-> "send", arg |-> <<"a">>]
    /\ component.isComposing
    /\ component.message = <<"a">>
    /\ component.emitted = << <<"b">> >>

----------------------------------------------------------------------------
(* Properties of the save button of SettingsModal.vue *)

\* A click on the save button of SettingsModal.vue
SaveClicked == app = "settings" /\ lastOp'.op = "save"

----------------------------------------------------------------------------
(* Properties of the conversation under interleaving *)

\* C28: in every reachable state of the conversation log, each assistant
\* message is preceded in the log by the user message of the same
\* submission, also when clearChat runs while responses are pending.
C28_AssistantFollowsItsUserMessage ==
    app \in {"echo", "gemini"} =>
        \A i \in 1..Len(messages) :
            messages[i].sender = "ai" =>
                \E j \in 1..(i - 1) :
                    /\ messages[j].sender = "user"
                    /\ msgSub[j] = msgSub[i]

\* C29: the credential used for a Gemini exchange is the one the store holds
\* when the exchange is dispatched: the key the call to generateResponse is
\* made with is the stored key, and with the key removed from the store the
\* submission fails as missing-credential without a call.
C29_DispatchUsesTheStoredKey ==
    /\ JustCalledService =>
          localStorage[STORAGE_KEY] = Some(pending[Len(pending)].apiKey)
    /\ (app = "gemini" /\ JustSubmitted /\ selectedModel = "gemini"
           /\ localStorage[STORAGE_KEY] = None) =>
          /\ hist[Len(hist)].status = "failed"
          /\ hist[Len(hist)].calls = 0
          /\ \A i \in 1..Len(pending) : pending[i].sub # Len(hist)

\* Submission s, dispatched on the echo path, is answered in this step
TimerAnswered(s) ==
    /\ s \in Subs
    /\ hist[s].status = "pending"
    /\ hist'[s].status = "ok"
    /\ WaitOf(s).kind = "timer"

\* C30: the response appended for a submission dispatched on the echo path
\* names the model that was selected when the submission was made, whatever
\* is selected when the response arrives, and no message
\* 'Response from gemini: ...' is ever appended.
C30_EchoNamesTheModelAtSubmission ==
    [][ \A s \in 1..MaxSubmissions :
            TimerAnswered(s) =>
                /\ messages' # <<>>
                /\ HasPrefix(messages'[Len(messages')].content,
                             <<"Response from ", WaitOf(s).model>>)
                /\ ~HasPrefix(messages'[Len(messages')].content,
                              <<"Response from ", "gemini">>)
      ]_vars

====
